---- MODULE Spec2Model ----
(***************************************************************************)
(* Bagpack collection pipeline (apps/bagpack-tui, collect module):         *)
(* runCommand, collectBrew, collectNpm, collectPip and collectInventory;    *)
(* the two consumers of a summary, the BagpackTui component and the        *)
(* +page.svelte page of bagpack-tauri; and the RefreshScheduler.           *)
(*                                                                         *)
(* A command's stdout is given in the form the collectors read it:         *)
(*   - brew list: a sequence of lines, each line the sequence of its       *)
(*     whitespace-separated tokens (the result of trim().split(/\s+/));    *)
(*   - every JSON command: blank text, text JSON.parse rejects, or the     *)
(*     parsed JSON value.                                                  *)
(* stderr is a sequence of characters.                                     *)
(***************************************************************************)
EXTENDS Integers, Sequences, FiniteSets, TLC

VARIABLES
    idx,        \* position of the for-of loop of collectInventory in handlers
    cpc,        \* per collector: where its async function is suspended
    installed,  \* per collector: the local built from the inventory output
    spawned,    \* the child processes spawned so far, in order
    exited,     \* the child process that exited last: exit code and kind of stdout
    returned,   \* per collector: the records its promise fulfilled with
    packages,   \* snapshot.packages
    warnings,   \* warnings
    summary,    \* what collectInventory() settled with
    run,        \* one direct call of runCommand: its arguments and outcome
    state,      \* BagpackTui: the reactive state of the component
    chain,      \* BagpackTui: the callback of the promise chain of setup() that is next
    page,       \* +page.svelte: the variables of the component
    sched       \* RefreshScheduler: its runs, callers, current summary and timers

vars == <<idx, cpc, installed, spawned, exited, returned, packages, warnings, summary, run,
          state, chain, page, sched>>

\* the variables of the collect module, and those of the applications around it
collectVars == <<idx, cpc, installed, spawned, exited, returned, packages, warnings, summary>>
appVars == <<state, chain, page, sched>>
tuiVars == <<state, chain>>

(***************************************************************************)
(* Bounds of the model.                                                    *)
(***************************************************************************)
MaxLines == 2       \* lines of a brew list output
MaxDeps == 2        \* entries of the npm ls dependencies map
MaxPip == 2         \* elements of the pip list array
MaxOutdated == 1    \* entries of an outdated document
MaxListed == 2      \* installed packages, in all, in the runs around the component
MaxPackages == 2    \* records of a snapshot the get_inventory command returns
MaxRuns == 3        \* aggregation runs a scheduler starts
Period == 2         \* ticks of the scheduler's clock in 24 hours

Names == {"a", "b"}
Versions == {"1", "2"}
LatestVersions == {"2"}     \* the versions an outdated document names
ExitCodes == {0, 1, 2}
Stderrs == {<<>>, <<" ", "e", " ">>}

Absent == "absent"          \* undefined: a missing field
Null == "null"              \* null

SeqsUpTo(S, n) == UNION {[1..k -> S] : k \in 0..n}

\* the sequences over S without a repeated key (the members of a JSON object)
DistinctKeys(s) == \A i, j \in 1..Len(s) : i # j => s[i].key # s[j].key

(***************************************************************************)
(* Values.                                                                 *)
(***************************************************************************)
Managers == {"brew", "npm", "pip"}

handlers == <<"brew", "npm", "pip">>

Blank == [kind |-> "blank"]
Malformed == [kind |-> "malformed"]
Json(v) == [kind |-> "json", val |-> v]
JNull == [t |-> "null"]

String_trim(s) ==
    IF \A i \in 1..Len(s) : s[i] = " " THEN <<>>
    ELSE LET first == CHOOSE i \in 1..Len(s) : s[i] # " " /\ \A j \in 1..(i-1) : s[j] = " "
             last == CHOOSE i \in 1..Len(s) : s[i] # " " /\ \A j \in (i+1)..Len(s) : s[j] = " "
         IN SubSeq(s, first, last)

\* Map: insertion-ordered, set() of an existing key keeps its position
Map_set(map, k, v) ==
    IF \E i \in 1..Len(map) : map[i].key = k
    THEN [i \in 1..Len(map) |-> IF map[i].key = k THEN [key |-> k, val |-> v] ELSE map[i]]
    ELSE Append(map, [key |-> k, val |-> v])

Map_has(map, k) == \E i \in 1..Len(map) : map[i].key = k

\* outdatedMap.get(name) ?? null
Map_getOrNull(map, k) ==
    IF Map_has(map, k) THEN (CHOOSE e \in {map[i] : i \in 1..Len(map)} : e.key = k).val
    ELSE Null

(***************************************************************************)
(* runCommand                                                              *)
(***************************************************************************)
DefaultAllowedExitCodes == {0}

Thrown(e) == [threw |-> TRUE, error |-> e]
Value(v) == [threw |-> FALSE, value |-> v]

\* the allowedExitCodes argument: omitted, or the codes given
Omitted == [given |-> FALSE, codes |-> {}]
Given(codes) == [given |-> TRUE, codes |-> codes]

\* as runCommand, but every non-zero exit code fails whatever the caller allows
runCommand_nonZeroFails(program, args, allowedExitCodes, subprocess) ==
    IF subprocess.code # 0
    THEN Thrown([kind |-> "exit", program |-> program, args |-> args,
                 code |-> subprocess.code, stderr |-> String_trim(subprocess.stderr)])
    ELSE Value([code |-> subprocess.code, stdout |-> subprocess.stdout,
                stderr |-> subprocess.stderr])

runCommand(program, args, allowedExitCodes, subprocess) ==
    IF subprocess.code \notin (IF allowedExitCodes.given THEN allowedExitCodes.codes
                               ELSE DefaultAllowedExitCodes)
    THEN Thrown([kind |-> "exit", program |-> program, args |-> args,
                 code |-> subprocess.code, stderr |-> String_trim(subprocess.stderr)])
    ELSE Value([code |-> subprocess.code, stdout |-> subprocess.stdout,
                stderr |-> subprocess.stderr])

\* as NpmOutdatedAllowed, but the argument is left out
NpmOutdatedAllowed_omitted == Omitted

\* the allowedExitCodes argument of the npm outdated call
NpmOutdatedAllowed == Given({0, 1})

ParseError(what) == [kind |-> "parse", what |-> what]
TypeError(what) == [kind |-> "type", what |-> what]

Record(manager, name, current_version, latest_version, status) ==
    [name |-> name, current_version |-> current_version,
     latest_version |-> latest_version, installed_at |-> Null,
     status |-> status, manager |-> manager]

(***************************************************************************)
(* collectBrew                                                             *)
(***************************************************************************)
RECURSIVE BrewInstalled(_, _)
BrewInstalled(lines, map) ==
    IF lines = <<>> THEN map
    ELSE LET parts == Head(lines) IN
         BrewInstalled(Tail(lines),
                       IF Len(parts) < 2 THEN map
                       ELSE Map_set(map, parts[1], parts[Len(parts)]))

\* as BrewLatest, but without the current_version fallback
BrewLatest_noFallback(formula) ==
    IF formula.latest_version # Absent THEN formula.latest_version ELSE Null

\* formula.latest_version || formula.current_version || null
BrewLatest(formula) ==
    IF formula.latest_version # Absent THEN formula.latest_version
    ELSE IF formula.current_version # Absent THEN formula.current_version
    ELSE Null

RECURSIVE BrewFormulae(_, _)
BrewFormulae(formulae, map) ==
    IF formulae = <<>> THEN map
    ELSE LET formula == Head(formulae)
             latest == BrewLatest(formula) IN
         BrewFormulae(Tail(formulae),
                      IF formula.name # Absent /\ latest # Null
                      THEN Map_set(map, formula.name, latest) ELSE map)

BrewOutdatedMap(stdout) ==
    IF stdout.kind = "blank" THEN Value(<<>>)
    ELSE IF stdout.kind = "malformed" THEN Thrown(ParseError("brew outdated"))
    ELSE IF stdout.val.t = "null" THEN Thrown(ParseError("brew outdated"))
    ELSE IF stdout.val.formulae.t = "absent" THEN Value(<<>>)
    ELSE Value(BrewFormulae(stdout.val.formulae.items, <<>>))

\* as BrewStatus, but a package without a latest version is "unknown"
BrewStatus_unknownWithoutLatest(current_version, latest_version) ==
    IF latest_version = Null THEN "unknown"
    ELSE IF latest_version # current_version THEN "outdated" ELSE "current"

BrewStatus(current_version, latest_version) ==
    IF latest_version # Null /\ latest_version # current_version
    THEN "outdated" ELSE "current"

BrewRecords(inst, outdatedMap) ==
    [i \in 1..Len(inst) |->
        LET latest_version == Map_getOrNull(outdatedMap, inst[i].key) IN
        Record("brew", inst[i].key, inst[i].val, latest_version,
               BrewStatus(inst[i].val, latest_version))]

(***************************************************************************)
(* collectNpm                                                              *)
(***************************************************************************)
NpmDependencies(stdout) ==
    IF stdout.kind # "json" THEN Thrown(ParseError("npm ls"))
    ELSE IF stdout.val.t = "null" THEN Thrown(ParseError("npm ls"))
    ELSE IF stdout.val.dependencies.t = "absent" THEN Value(<<>>)
    ELSE Value(stdout.val.dependencies.items)

RECURSIVE NpmEntries(_, _)
NpmEntries(entries, map) ==
    IF entries = <<>> THEN map
    ELSE LET e == Head(entries) IN
         NpmEntries(Tail(entries),
                    IF e.latest # Absent THEN Map_set(map, e.key, e.latest) ELSE map)

NpmOutdatedMap(stdout) ==
    IF stdout.kind = "blank" THEN Value(<<>>)
    ELSE IF stdout.kind = "malformed" THEN Thrown(ParseError("npm outdated"))
    ELSE IF stdout.val.t = "null" THEN Thrown(ParseError("npm outdated"))
    ELSE Value(NpmEntries(stdout.val.items, <<>>))

NpmStatus(current_version, latest_version) ==
    IF latest_version # Null THEN "outdated" ELSE "current"

RECURSIVE NpmRecords(_, _)
NpmRecords(dependencies, outdatedMap) ==
    IF dependencies = <<>> THEN <<>>
    ELSE LET pkg == Head(dependencies)
             latest_version == Map_getOrNull(outdatedMap, pkg.key) IN
         IF pkg.version = Absent THEN NpmRecords(Tail(dependencies), outdatedMap)
         ELSE <<Record("npm", pkg.key, pkg.version, latest_version,
                       NpmStatus(pkg.version, latest_version))>>
              \o NpmRecords(Tail(dependencies), outdatedMap)

(***************************************************************************)
(* collectPip                                                              *)
(***************************************************************************)
\* installed = JSON.parse(list.stdout) as PipPackage[]: any JSON value passes
PipInstalled(stdout) ==
    IF stdout.kind # "json" THEN Thrown(ParseError("pip list"))
    ELSE Value(stdout.val)

RECURSIVE PipEntries(_, _)
PipEntries(parsed, map) ==
    IF parsed = <<>> THEN map
    ELSE PipEntries(Tail(parsed), Map_set(map, Head(parsed).name, Head(parsed).latest_version))

\* as PipOutdatedMap, but output that does not parse counts as no output
PipOutdatedMap_lenient(stdout) ==
    IF stdout.kind \in {"blank", "malformed"} THEN Value(<<>>)
    ELSE IF stdout.val.t # "array" THEN Thrown(ParseError("pip outdated"))
    ELSE Value(PipEntries(stdout.val.items, <<>>))

\* as PipOutdatedMap, but blank output is handed to JSON.parse
PipOutdatedMap_parsesBlank(stdout) ==
    IF stdout.kind \in {"blank", "malformed"} THEN Thrown(ParseError("pip outdated"))
    ELSE IF stdout.val.t # "array" THEN Thrown(ParseError("pip outdated"))
    ELSE Value(PipEntries(stdout.val.items, <<>>))

PipOutdatedMap(stdout) ==
    IF stdout.kind = "blank" THEN Value(<<>>)
    ELSE IF stdout.kind = "malformed" THEN Thrown(ParseError("pip outdated"))
    ELSE IF stdout.val.t # "array" THEN Thrown(ParseError("pip outdated"))
    ELSE Value(PipEntries(stdout.val.items, <<>>))

PipStatus(current_version, latest_version) ==
    IF latest_version # Null THEN "outdated" ELSE "current"

\* installed.map(...): a TypeError when installed is not an array
PipRecords(inst, outdatedMap) ==
    IF inst.t # "array" THEN Thrown(TypeError("installed.map"))
    ELSE Value([i \in 1..Len(inst.items) |->
            LET latest_version == Map_getOrNull(outdatedMap, inst.items[i].name) IN
            Record("pip", inst.items[i].name, inst.items[i].version, latest_version,
                   PipStatus(inst.items[i].version, latest_version))])

(***************************************************************************)
(* The two halves of each collector, around its second await.             *)
(*   next = "throw":    the promise rejects with error                    *)
(*   next = "return":   the promise fulfils with records                  *)
(*   next = "outdated": the outdated command is spawned, local is kept    *)
(***************************************************************************)
Throw(e) == [next |-> "throw", error |-> e]
Return(records) == [next |-> "return", records |-> records]
Outdated(local) == [next |-> "outdated", local |-> local]

collectBrew_list(sub) ==
    LET list == runCommand("brew", "list --versions", Omitted, sub) IN
    IF list.threw THEN Throw(list.error)
    ELSE LET inst == BrewInstalled(list.value.stdout.lines, <<>>) IN
         IF Len(inst) = 0 THEN Return(<<>>) ELSE Outdated(inst)

\* as collectBrew_outdated, but a failed outdated step keeps the inventory
collectBrew_outdated_keepsInventory(inst, sub) ==
    LET outdated == runCommand("brew", "outdated --json=v2", Omitted, sub) IN
    IF outdated.threw THEN Return(BrewRecords(inst, <<>>))
    ELSE LET outdatedMap == BrewOutdatedMap(outdated.value.stdout) IN
         IF outdatedMap.threw THEN Return(BrewRecords(inst, <<>>))
         ELSE Return(BrewRecords(inst, outdatedMap.value))

collectBrew_outdated(inst, sub) ==
    LET outdated == runCommand("brew", "outdated --json=v2", Omitted, sub) IN
    IF outdated.threw THEN Throw(outdated.error)
    ELSE LET outdatedMap == BrewOutdatedMap(outdated.value.stdout) IN
         IF outdatedMap.threw THEN Throw(outdatedMap.error)
         ELSE Return(BrewRecords(inst, outdatedMap.value))

\* as collectNpm_list, but an unparsable listing counts as no dependencies
collectNpm_list_ignoresParseError(sub) ==
    LET list == runCommand("npm", "ls -g --depth=0 --json", Omitted, sub) IN
    IF list.threw THEN Throw(list.error)
    ELSE LET dependencies == NpmDependencies(list.value.stdout) IN
         IF dependencies.threw THEN Outdated(<<>>)
         ELSE Outdated(dependencies.value)

collectNpm_list(sub) ==
    LET list == runCommand("npm", "ls -g --depth=0 --json", Omitted, sub) IN
    IF list.threw THEN Throw(list.error)
    ELSE LET dependencies == NpmDependencies(list.value.stdout) IN
         IF dependencies.threw THEN Throw(dependencies.error)
         ELSE Outdated(dependencies.value)

collectNpm_outdated(dependencies, sub) ==
    LET outdated == runCommand("npm", "outdated -g --json", NpmOutdatedAllowed, sub) IN
    IF outdated.threw THEN Throw(outdated.error)
    ELSE LET outdatedMap == NpmOutdatedMap(outdated.value.stdout) IN
         IF outdatedMap.threw THEN Throw(outdatedMap.error)
         ELSE Return(NpmRecords(dependencies, outdatedMap.value))

collectPip_list(sub) ==
    LET list == runCommand("pip", "list --format=json", Omitted, sub) IN
    IF list.threw THEN Throw(list.error)
    ELSE LET inst == PipInstalled(list.value.stdout) IN
         IF inst.threw THEN Throw(inst.error) ELSE Outdated(inst.value)

collectPip_outdated(inst, sub) ==
    LET outdated == runCommand("pip", "list --outdated --format=json", Omitted, sub) IN
    IF outdated.threw THEN Throw(outdated.error)
    ELSE LET outdatedMap == PipOutdatedMap(outdated.value.stdout) IN
         IF outdatedMap.threw THEN Throw(outdatedMap.error)
         ELSE LET records == PipRecords(inst, outdatedMap.value) IN
              IF records.threw THEN Throw(records.error) ELSE Return(records.value)

runner_list(m, sub) ==
    CASE m = "brew" -> collectBrew_list(sub)
      [] m = "npm" -> collectNpm_list(sub)
      [] m = "pip" -> collectPip_list(sub)

runner_outdated(m, local, sub) ==
    CASE m = "brew" -> collectBrew_outdated(local, sub)
      [] m = "npm" -> collectNpm_outdated(local, sub)
      [] m = "pip" -> collectPip_outdated(local, sub)

(***************************************************************************)
(* What the child processes can print and exit with.                       *)
(***************************************************************************)
NoField == [t |-> "absent"]
Arr(items) == [t |-> "array", items |-> items]
Obj(items) == [t |-> "object", items |-> items]

BrewLines ==
    {<<>>} \cup {<<n>> : n \in Names} \cup {<<n, v>> : n \in Names, v \in Versions}
    \cup {<<n, v, w>> : n \in Names, v \in Versions, w \in Versions}

BrewListStdouts == {[kind |-> "text", lines |-> s] : s \in SeqsUpTo(BrewLines, MaxLines)}

Formulas ==
    [name : Names \cup {Absent}, latest_version : LatestVersions \cup {Absent},
     current_version : LatestVersions \cup {Absent}]

BrewOutdatedStdouts ==
    {Blank, Malformed, Json(JNull), Json([t |-> "object", formulae |-> NoField])}
    \cup {Json([t |-> "object", formulae |-> Arr(s)]) : s \in SeqsUpTo(Formulas, MaxOutdated)}

NpmLsStdouts ==
    {Blank, Malformed, Json(JNull), Json([t |-> "object", dependencies |-> NoField])}
    \cup {Json([t |-> "object", dependencies |-> Obj(s)]) :
            s \in {d \in SeqsUpTo([key : Names, version : Versions \cup {Absent}], MaxDeps) :
                     DistinctKeys(d)}}

NpmOutdatedStdouts ==
    {Blank, Malformed, Json(JNull)}
    \cup {Json(Obj(s)) :
            s \in {d \in SeqsUpTo([key : Names, latest : LatestVersions \cup {Absent}], MaxOutdated) :
                     DistinctKeys(d)}}

PipListStdouts ==
    {Blank, Malformed, Json(JNull), Json(Obj(<<>>))}
    \cup {Json(Arr(s)) : s \in SeqsUpTo([name : Names, version : Versions], MaxPip)}

PipOutdatedStdouts ==
    {Blank, Malformed, Json(JNull), Json(Obj(<<>>))}
    \cup {Json(Arr(s)) : s \in SeqsUpTo([name : Names, latest_version : LatestVersions], MaxOutdated)}

Stdouts(m, step) ==
    CASE m = "brew" /\ step = "inventory" -> BrewListStdouts
      [] m = "brew" /\ step = "outdated" -> BrewOutdatedStdouts
      [] m = "npm" /\ step = "inventory" -> NpmLsStdouts
      [] m = "npm" /\ step = "outdated" -> NpmOutdatedStdouts
      [] m = "pip" /\ step = "inventory" -> PipListStdouts
      [] m = "pip" /\ step = "outdated" -> PipOutdatedStdouts

\* a process that exits with 0 leaves stderr empty, any other writes a line
StderrOf(code) == IF code = 0 THEN <<>> ELSE <<" ", "e", " ">>

\* a process that exits with 0 or 1 prints any of its outputs, one that exits
\* with a higher code prints nothing to stdout
EmptyStdout(m, step) ==
    IF m = "brew" /\ step = "inventory" THEN [kind |-> "text", lines |-> <<>>] ELSE Blank

Subprocesses(m, step) ==
    {[code |-> c, stdout |-> o, stderr |-> StderrOf(c)] :
        c \in {e \in ExitCodes : e <= 1}, o \in Stdouts(m, step)}
    \cup {[code |-> c, stdout |-> EmptyStdout(m, step), stderr |-> StderrOf(c)] :
        c \in {e \in ExitCodes : e > 1}}

(***************************************************************************)
(* collectInventory                                                        *)
(***************************************************************************)
Command(m, step) == [manager |-> m, step |-> step]

\* what a stdout is: text, blank, malformed, or the type of its JSON value
OutKind(stdout) == IF stdout.kind = "json" THEN stdout.val.t ELSE stdout.kind

\* the number of installed entries a collector's local holds (-1: not a list)
Size(m, local) ==
    IF m = "pip" THEN (IF local.t = "array" THEN Len(local.items) ELSE -1)
    ELSE Len(local)

\* whether a JSON stdout has the type its collector declares for it
\* (BrewOutdated, NpmTree, Record<string, ...>, PipPackage[], PipOutdated[])
Shape(m, step, stdout) ==
    IF stdout.kind # "json" THEN "none"
    ELSE IF CASE m = "brew" -> stdout.val.t = "object" /\ stdout.val.formulae.t = "array"
              [] m = "npm" /\ step = "inventory" ->
                    stdout.val.t = "object" /\ stdout.val.dependencies.t = "object"
              [] m = "npm" /\ step = "outdated" -> stdout.val.t = "object"
              [] m = "pip" -> stdout.val.t = "array"
         THEN "expected" ELSE "unexpected"

\* the formulae array of a brew outdated document (none for any other output)
FormulaeOf(m, step, stdout) ==
    IF m = "brew" /\ step = "outdated" /\ Shape(m, step, stdout) = "expected"
    THEN stdout.val.formulae.items ELSE <<>>

NoneExited ==
    [manager |-> "none", step |-> "none", code |-> 0, out |-> "none", shape |-> "none",
     formulae |-> <<>>, listed |-> 0]
Exited(m, step, sub, listed) ==
    [manager |-> m, step |-> step, code |-> sub.code, out |-> OutKind(sub.stdout),
     shape |-> Shape(m, step, sub.stdout), formulae |-> FormulaeOf(m, step, sub.stdout),
     listed |-> listed]

\* a collector that is not between its two commands holds no local
NoLocal(m) == IF m = "pip" THEN Arr(<<>>) ELSE <<>>

Pending == [settled |-> "pending"]
Fulfilled(v) == [settled |-> "fulfilled", value |-> v]
Rejected(e) == [settled |-> "rejected", error |-> e]

(***************************************************************************)
(* BagpackTui: setup() and the template.                                   *)
(***************************************************************************)
\* a variable of type T | null: null, or the object it refers to
NullRef == <<>>
Ref(object) == <<object>>
Deref(ref) == ref[1]

\* const state = reactive({ ... })
setup_state ==
    [summary |-> NullRef, snapshot |-> NullRef, warnings |-> <<>>, error |-> Null,
     loading |-> TRUE]

\* as then, but the warnings are left as they were
then_withoutWarnings(st, s) ==
    [st EXCEPT !.summary = Ref(s), !.snapshot = Ref(s.snapshot)]

\* .then((summary) => { ... })
then(st, s) ==
    [st EXCEPT !.summary = Ref(s), !.snapshot = Ref(s.snapshot), !.warnings = s.warnings]

\* err instanceof Error ? err.message : String(err): the text of an error
ErrorText(err) == err.kind

\* .catch((err) => { state.error = ... })
catch_callback(st, err) == [st EXCEPT !.error = ErrorText(err)]

\* the callback of .then().catch() that runs for a settled promise
settled_callback(st, promise) ==
    IF promise.settled = "fulfilled" THEN then(st, promise.value)
    ELSE catch_callback(st, promise.error)

\* as finally, but the loading flag is left as it was
finally_keepsLoading(st) == st

\* .finally(() => { state.loading = false; })
finally(st) == [st EXCEPT !.loading = FALSE]

\* const grouped = computed(...)
grouped(st) ==
    [m \in Managers |->
        IF st.snapshot = NullRef THEN <<>>
        ELSE SelectSeq(Deref(st.snapshot).packages, LAMBDA pkg : pkg.manager = m)]

\* the template: what the component shows for a state
template(st) ==
    IF st.loading THEN [screen |-> "loading"]
    ELSE IF st.error # Null THEN [screen |-> "error", text |-> st.error]
    ELSE [screen |-> "dashboard",
          warnings |-> [i \in 1..Len(st.warnings) |->
                          [manager |-> st.warnings[i].manager,
                           message |-> st.warnings[i].message]],
          boxes |-> [m \in Managers |->
                       [i \in 1..Len(grouped(st)[m]) |->
                          [name |-> grouped(st)[m][i].name,
                           status |-> grouped(st)[m][i].status]]]]

(***************************************************************************)
(* +page.svelte (bagpack-tauri): the script, onMount and the markup.       *)
(***************************************************************************)
\* let summary = null; let inventory = null; let warnings = []; ...
script_page ==
    [summary |-> NullRef, inventory |-> NullRef, warnings |-> <<>>, error |-> Null,
     isLoading |-> TRUE]

\* try { summary = await invoke(...); inventory = ...; warnings = ... ?? [] }
onMount_try(pg, s) ==
    [pg EXCEPT !.summary = Ref(s), !.inventory = Ref(s.snapshot),
               !.warnings = IF s.warnings = NullRef THEN <<>> ELSE Deref(s.warnings)]

\* catch (err) { error = err instanceof Error ? err.message : "Failed to load inventory" }
onMount_catch(pg, err) ==
    [pg EXCEPT !.error = IF err.isError THEN err.message ELSE "Failed to load inventory"]

\* finally { isLoading = false }
onMount_finally(pg) == [pg EXCEPT !.isLoading = FALSE]

\* packagesByManager(manager)
packagesByManager(pg, manager) ==
    IF pg.inventory = NullRef THEN <<>>
    ELSE SelectSeq(Deref(pg.inventory).packages, LAMBDA pkg : pkg.manager = manager)

\* the markup below the header: what the page shows for its variables
markup(pg) ==
    IF pg.isLoading THEN [screen |-> "loading"]
    ELSE IF pg.error # Null THEN [screen |-> "error", text |-> pg.error]
    ELSE IF pg.inventory = NullRef \/ Len(Deref(pg.inventory).packages) = 0
         THEN [screen |-> "no packages"]
    ELSE [screen |-> "dashboard",
          warnings |-> [i \in 1..Len(pg.warnings) |->
                          [manager |-> pg.warnings[i].manager,
                           message |-> pg.warnings[i].message]],
          panels |-> [m \in Managers |->
                        [i \in 1..Len(packagesByManager(pg, m)) |->
                           [name |-> packagesByManager(pg, m)[i].name,
                            status |-> packagesByManager(pg, m)[i].status]]]]

\* what invoke("get_inventory") can settle with: a CollectionSummary, or an error
InvokeRecords ==
    [name : {"a"}, current_version : {"1"}, latest_version : {Null}, installed_at : {Null},
     status : {"current", "outdated", "unknown"}, manager : Managers]

InvokeWarnings ==
    {SelectSeq(<<[manager |-> "brew", message |-> "failed"],
                 [manager |-> "npm", message |-> "failed"],
                 [manager |-> "pip", message |-> "failed"]>>,
               LAMBDA w : w.manager \in failed) : failed \in SUBSET Managers}

InvokeSummaries ==
    [snapshot : [packages : SeqsUpTo(InvokeRecords, MaxPackages)],
     warnings : {NullRef} \cup {Ref(ws) : ws \in InvokeWarnings}]

InvokeErrors ==
    {[isError |-> TRUE, message |-> "command get_inventory failed"],
     [isError |-> FALSE, message |-> "rejected"]}

(***************************************************************************)
(* RefreshScheduler: refreshNow(), schedule(), stop() and the daily timer. *)
(* A run is named by its number; the summary of run k is named k, and 0    *)
(* stands for no run and no summary.                                       *)
(***************************************************************************)
Callers == {"ui", "tray", "timer"}

RefreshScheduler ==
    [inflight |-> {},                       \* the aggregation runs that are Running
     started |-> 0,                         \* the number of runs started so far
     joined |-> [c \in Callers |-> 0],      \* the run each caller's pending call waits for
     received |-> [c \in Callers |-> 0],    \* the summary each caller's last call returned
     current |-> 0,                         \* the "current" summary
     timers |-> <<>>,                       \* the armed timers: ticks since each was armed
     last |-> "none"]                       \* the operation that ran last

\* as refreshNow, but a call starts a run whether or not one is in flight
refreshNow_alwaysStarts(s, c) ==
    [s EXCEPT !.started = @ + 1, !.inflight = @ \cup {s.started + 1},
              !.joined[c] = s.started + 1, !.last = "refreshNow"]

\* refreshNow(): joins the run in flight, or starts one
refreshNow(s, c) ==
    IF s.inflight # {}
    THEN [s EXCEPT !.joined[c] = CHOOSE k \in s.inflight : TRUE, !.last = "refreshNow"]
    ELSE [s EXCEPT !.started = @ + 1, !.inflight = {s.started + 1},
                   !.joined[c] = s.started + 1, !.last = "refreshNow"]

\* the aggregation of run k returns: its summary becomes current and every
\* caller that waits for the run receives it
completed(s, k) ==
    [s EXCEPT !.inflight = @ \ {k},
              !.current = k,
              !.received = [c \in Callers |-> IF s.joined[c] = k THEN k ELSE @[c]],
              !.joined = [c \in Callers |-> IF s.joined[c] = k THEN 0 ELSE @[c]],
              !.last = "completed"]

\* as schedule, but the timer is added to those already armed
schedule_addsTimer(s) == [s EXCEPT !.timers = Append(@, 0), !.last = "schedule"]

\* schedule(): arms the recurring timer, resetting it when it is armed
schedule(s) == [s EXCEPT !.timers = <<0>>, !.last = "schedule"]

\* stop(): disarms the timer
stop(s) == [s EXCEPT !.timers = <<>>, !.last = "stop"]

\* the clock advances by one tick
tick(s) == [s EXCEPT !.timers = [i \in 1..Len(s.timers) |-> s.timers[i] + 1], !.last = "tick"]

\* timer i fires after 24 hours: it calls refreshNow() and starts over
fired(s, i) == [refreshNow(s, "timer") EXCEPT !.timers[i] = 0, !.last = "fired"]

Init ==
    /\ idx = 1
    /\ cpc = [m \in Managers |-> "idle"]
    /\ installed = [m \in Managers |-> NoLocal(m)]
    /\ spawned = <<>>
    /\ exited = NoneExited
    /\ returned = [m \in Managers |-> <<>>]
    /\ packages = <<>>
    /\ warnings = <<>>
    /\ summary = Pending
    /\ run = [st |-> "none"]
    /\ state = setup_state
    /\ chain = "then"
    /\ page = script_page
    /\ sched = RefreshScheduler

\* as LoopAt, but the loop does not wait for the runner it called
LoopAt_noAwait(m) == idx <= Len(handlers)

\* for (const { manager, runner } of handlers): the loop is at this manager
LoopAt(m) == idx <= Len(handlers) /\ handlers[idx] = m

\* as push, but the records go to the front
push_front(pkgs, records) == records \o pkgs

\* snapshot.packages.push(...packages)
push(pkgs, records) == pkgs \o records

\* as catch, but the error is swallowed without a warning
catch_silent(ws, manager, error) == ws

\* catch (error) { warnings.push({ manager, message }) }
catch(ws, manager, error) == Append(ws, [manager |-> manager, message |-> error])

\* const packages = await runner(): the promise of the runner settles; after
\* the last handler the loop ends and collectInventory returns { snapshot, warnings }
Settle(m, r) ==
    /\ idx' = idx + 1
    /\ IF r.next = "return"
       THEN /\ packages' = push(packages, r.records)
            /\ returned' = [returned EXCEPT ![m] = r.records]
            /\ cpc' = [cpc EXCEPT ![m] = "returned"]
            /\ UNCHANGED warnings
       ELSE /\ warnings' = catch(warnings, m, r.error)
            /\ cpc' = [cpc EXCEPT ![m] = "threw"]
            /\ UNCHANGED <<packages, returned>>
    /\ summary' = IF idx = Len(handlers)
                  THEN Fulfilled([snapshot |-> [packages |-> packages'],
                                  warnings |-> warnings'])
                  ELSE summary

\* runner() is called and runs to its first await: the inventory command
CallRunner(m) ==
    /\ summary = Pending
    /\ LoopAt(m)
    /\ cpc[m] = "idle"
    /\ cpc' = [cpc EXCEPT ![m] = "inventory"]
    /\ spawned' = Append(spawned, Command(m, "inventory"))
    /\ UNCHANGED <<idx, installed, exited, returned, packages, warnings, summary, run>>
    /\ UNCHANGED appVars

\* the inventory command exits; the collector runs to its next await or settles
InventoryExits(m) ==
    /\ cpc[m] = "inventory"
    /\ \E sub \in Subprocesses(m, "inventory") :
         LET r == runner_list(m, sub) IN
         IF r.next = "outdated"
         THEN /\ installed' = [installed EXCEPT ![m] = r.local]
              /\ cpc' = [cpc EXCEPT ![m] = "outdated"]
              /\ exited' = Exited(m, "inventory", sub, Size(m, r.local))
              /\ spawned' = Append(spawned, Command(m, "outdated"))
              /\ UNCHANGED <<idx, returned, packages, warnings, summary>>
         ELSE /\ Settle(m, r)
              /\ exited' = Exited(m, "inventory", sub, 0)
              /\ UNCHANGED <<installed, spawned>>
    /\ UNCHANGED <<run, appVars>>

\* the outdated command exits; the collector settles
OutdatedExits(m) ==
    /\ cpc[m] = "outdated"
    /\ \E sub \in Subprocesses(m, "outdated") :
         /\ Settle(m, runner_outdated(m, installed[m], sub))
         /\ exited' = Exited(m, "outdated", sub, Size(m, installed[m]))
    /\ installed' = [installed EXCEPT ![m] = NoLocal(m)]
    /\ UNCHANGED <<spawned, run, appVars>>

\* collectInventory() has settled: the .then callback of setup() runs if it
\* fulfilled, the .catch callback if it rejected
ThenCallback ==
    /\ chain = "then"
    /\ summary.settled # "pending"
    /\ state' = settled_callback(state, summary)
    /\ chain' = "finally"
    /\ UNCHANGED <<collectVars, run, page, sched>>

\* the .finally callback of setup() runs, in a later microtask
FinallyCallback ==
    /\ chain = "finally"
    /\ state' = finally(state)
    /\ chain' = "done"
    /\ UNCHANGED <<collectVars, run, page, sched>>

Next ==
    \/ \E m \in Managers : CallRunner(m)
    \/ \E m \in Managers : InventoryExits(m)
    \/ \E m \in Managers : OutdatedExits(m)

Spec == Init /\ [][Next]_vars

\* the component around one collectInventory() run whose inventory commands
\* list at most MaxListed packages in all
NextTui ==
    \/ \E m \in Managers : CallRunner(m)
    \/ \E m \in Managers : InventoryExits(m) /\ Len(packages) + exited'.listed <= MaxListed
    \/ \E m \in Managers : OutdatedExits(m)
    \/ ThenCallback
    \/ FinallyCallback

SpecTui == Init /\ [][NextTui]_vars

\* the callbacks of a settled promise are microtasks: the event loop runs
\* them; nothing makes a child process exit
SpecTuiFair == SpecTui /\ WF_vars(ThenCallback) /\ WF_vars(FinallyCallback)

\* onMount: invoke("get_inventory") fulfils; the rest of the try block and
\* the finally block run
InvokeFulfils ==
    /\ page.isLoading
    /\ \E s \in InvokeSummaries : page' = onMount_finally(onMount_try(page, s))
    /\ UNCHANGED <<collectVars, run, tuiVars, sched>>

\* onMount: invoke("get_inventory") rejects; the catch and finally blocks run
InvokeRejects ==
    /\ page.isLoading
    /\ \E err \in InvokeErrors : page' = onMount_finally(onMount_catch(page, err))
    /\ UNCHANGED <<collectVars, run, tuiVars, sched>>

NextPage ==
    \/ InvokeFulfils
    \/ InvokeRejects

SpecPage == Init /\ [][NextPage]_vars

\* a caller that has no call pending calls refreshNow()
RefreshNow(c) ==
    /\ sched.joined[c] = 0
    /\ sched.inflight # {} \/ sched.started < MaxRuns
    /\ sched' = refreshNow(sched, c)
    /\ UNCHANGED <<collectVars, run, tuiVars, page>>

AggregationCompletes ==
    /\ \E k \in sched.inflight : sched' = completed(sched, k)
    /\ UNCHANGED <<collectVars, run, tuiVars, page>>

Schedule ==
    /\ sched' = schedule(sched)
    /\ UNCHANGED <<collectVars, run, tuiVars, page>>

Stop ==
    /\ sched' = stop(sched)
    /\ UNCHANGED <<collectVars, run, tuiVars, page>>

Tick ==
    /\ sched.timers # <<>>
    /\ \A i \in 1..Len(sched.timers) : sched.timers[i] < Period
    /\ sched' = tick(sched)
    /\ UNCHANGED <<collectVars, run, tuiVars, page>>

TimerFires ==
    /\ sched.inflight # {} \/ sched.started < MaxRuns
    /\ \E i \in 1..Len(sched.timers) :
          /\ sched.timers[i] = Period
          /\ sched' = fired(sched, i)
    /\ UNCHANGED <<collectVars, run, tuiVars, page>>

NextSched ==
    \/ \E c \in {"ui", "tray"} : RefreshNow(c)
    \/ AggregationCompletes
    \/ Schedule
    \/ Stop
    \/ Tick
    \/ TimerFires

SpecSched == Init /\ [][NextSched]_vars

(***************************************************************************)
(* runCommand called on its own, with any arguments and any child process. *)
(***************************************************************************)
RunPrograms == {"brew", "npm", "pip"}
RunArgs == {"list", "outdated"}
RunAllowed == {Omitted} \cup {Given(codes) : codes \in SUBSET ExitCodes}
RunSubprocesses == [code : ExitCodes, stdout : {Blank, Malformed, Json(JNull)}, stderr : Stderrs]

CallRunCommand ==
    /\ \E program \in RunPrograms, args \in RunArgs, allowedExitCodes \in RunAllowed,
          sub \in RunSubprocesses :
         run' = [st |-> "called", program |-> program, args |-> args,
                 allowedExitCodes |-> allowedExitCodes, subprocess |-> sub,
                 outcome |-> runCommand(program, args, allowedExitCodes, sub)]
    /\ UNCHANGED <<collectVars, appVars>>

NextRun == CallRunCommand

SpecRun == Init /\ [][NextRun]_vars

(***************************************************************************)
(* Properties.                                                             *)
(***************************************************************************)
Index(m) == CHOOSE i \in 1..Len(handlers) : handlers[i] = m
RecordsOf(m, pkgs) == SelectSeq(pkgs, LAMBDA r : r.manager = m)
WarningsOf(m, ws) == SelectSeq(ws, LAMBDA w : w.manager = m)
Invoked(m, step) == \E i \in 1..Len(spawned) : spawned[i] = Command(m, step)
Failed(m) == cpc[m] = "threw"
FailedManagers == {m \in Managers : Failed(m)}
AllSettled == \A m \in Managers : cpc[m] \in {"returned", "threw"}

\* the exit codes each command is to accept: 0, and 1 for npm outdated
Accepted(m, step) == IF m = "npm" /\ step = "outdated" THEN {0, 1} ELSE {0}

\* the error of a manager's warning comes from its inventory step
InventoryError(m, e) ==
    \/ e.kind = "exit" /\ e.program = m
       /\ e.args \in {"list --versions", "ls -g --depth=0 --json", "list --format=json"}
    \/ e.kind = "parse" /\ e.what \in {"npm ls", "pip list"}

\* C1: every record of snapshot.packages has status "outdated" exactly when
\* its latest_version is non-null and differs from its current_version.
C1_OutdatedIffNewerVersion ==
    \A i \in 1..Len(packages) :
        packages[i].status = "outdated"
        <=> (packages[i].latest_version # Null
             /\ packages[i].latest_version # packages[i].current_version)

\* C2: collectInventory never rejects; whatever set of collectors failed, the
\* summary holds no record of a failed manager, exactly one warning for each
\* failed manager and none for the others; with all three failed it is an
\* empty packages list and three warnings.
C2_FailureIsolation ==
    /\ summary.settled # "rejected"
    /\ AllSettled => summary.settled = "fulfilled"
    /\ summary.settled = "fulfilled" =>
         LET s == summary.value IN
         /\ AllSettled
         /\ \A m \in FailedManagers :
                /\ RecordsOf(m, s.snapshot.packages) = <<>>
                /\ Len(WarningsOf(m, s.warnings)) = 1
         /\ \A m \in Managers \ FailedManagers : WarningsOf(m, s.warnings) = <<>>
         /\ Len(s.warnings) = Cardinality(FailedManagers)
         /\ FailedManagers = Managers =>
                s.snapshot.packages = <<>> /\ Len(s.warnings) = 3

C2_Witness ==
    /\ summary.settled = "fulfilled"
    /\ FailedManagers = {"brew", "pip"}
    /\ Len(summary.value.snapshot.packages) = 2
    /\ Len(summary.value.warnings) = 2

\* C3: when a collector's inventory command exits with a disallowed code or
\* prints output that does not parse, its outdated command is never spawned,
\* the manager has no record and exactly one warning; no manager ever has
\* more than one warning.
C3_InventoryFailureStopsCollector ==
    /\ (exited.step = "inventory"
        /\ (exited.code # 0
            \/ (exited.manager # "brew" /\ exited.out \in {"blank", "malformed"}))) =>
          LET m == exited.manager IN
          /\ Failed(m)
          /\ ~Invoked(m, "outdated")
          /\ RecordsOf(m, packages) = <<>>
          /\ Len(WarningsOf(m, warnings)) = 1
          /\ InventoryError(m, WarningsOf(m, warnings)[1].message)
    /\ \A m \in Managers :
          (\E i \in 1..Len(warnings) :
              warnings[i].manager = m /\ InventoryError(m, warnings[i].message)) =>
            /\ ~Invoked(m, "outdated")
            /\ RecordsOf(m, packages) = <<>>
    /\ \A m \in Managers : Len(WarningsOf(m, warnings)) <= 1

C3_Witness ==
    /\ summary.settled = "fulfilled"
    /\ \E i \in 1..Len(warnings) :
          warnings[i].manager = "npm" /\ warnings[i].message = ParseError("npm ls")
    /\ ~Invoked("npm", "outdated")
    /\ Invoked("pip", "outdated")

\* C4: when a collector listed at least one installed package and its
\* outdated command then exits with a disallowed code or prints output that
\* does not parse, the manager has no record in snapshot.packages and exactly
\* one warning.
C4_OutdatedFailureDropsInventory ==
    /\ (exited.step = "outdated" /\ exited.listed >= 1
        /\ (exited.code \notin Accepted(exited.manager, "outdated")
            \/ exited.out = "malformed")) =>
          LET m == exited.manager IN
          /\ Failed(m)
          /\ RecordsOf(m, packages) = <<>>
          /\ Len(WarningsOf(m, warnings)) = 1
          /\ ~InventoryError(m, WarningsOf(m, warnings)[1].message)
    /\ \A m \in Managers : Failed(m) => RecordsOf(m, packages) = <<>>

C4_Witness ==
    /\ exited.manager = "brew" /\ exited.step = "outdated"
    /\ exited.listed = 2 /\ exited.code = 0 /\ exited.out = "malformed"
    /\ Failed("brew")
    /\ warnings = <<[manager |-> "brew", message |-> ParseError("brew outdated")]>>

\* C5: when a manager's inventory command succeeds and lists no installed
\* package, its outdated command is not spawned and the manager ends with no
\* record and no warning.
C5_EmptyInventorySkipsOutdated ==
    \A m \in Managers :
        (exited.manager = m /\ exited.step = "inventory" /\ exited.code = 0
         /\ exited.out \in {"text", "object", "array"} /\ exited.listed = 0) =>
          /\ ~Invoked(m, "outdated")
          /\ cpc[m] = "returned"
          /\ RecordsOf(m, packages) = <<>>
          /\ WarningsOf(m, warnings) = <<>>

\* C6: npm outdated exiting with code 1 and a JSON document is a success of
\* the npm collector (it returns its records, no warning); any other command
\* exiting with code 1 fails its collector with a warning for that exit.
C6_ExitCodeOneOnlyForNpmOutdated ==
    /\ (exited.manager = "npm" /\ exited.step = "outdated" /\ exited.code = 1
        /\ exited.out = "object") =>
          /\ cpc["npm"] = "returned"
          /\ WarningsOf("npm", warnings) = <<>>
          /\ RecordsOf("npm", packages) = returned["npm"]
    /\ (exited.manager # "none" /\ exited.code = 1
        /\ ~(exited.manager = "npm" /\ exited.step = "outdated")) =>
          LET m == exited.manager IN
          /\ Failed(m)
          /\ Len(WarningsOf(m, warnings)) = 1
          /\ WarningsOf(m, warnings)[1].message.kind = "exit"
          /\ WarningsOf(m, warnings)[1].message.code = 1

C6_Witness ==
    /\ exited = [manager |-> "npm", step |-> "outdated", code |-> 1, out |-> "object",
                 shape |-> "expected", formulae |-> <<>>, listed |-> 2]
    /\ cpc["npm"] = "returned"
    /\ Len(returned["npm"]) = 2
    /\ \E i \in 1..2 : returned["npm"][i].status = "outdated"
    /\ WarningsOf("npm", warnings) = <<>>

\* C7: runCommand throws exactly when the exit code is not among the allowed
\* exit codes, which are [0] when the argument is left out; when it does not
\* throw it returns the exit code with the captured stdout and stderr.
C7_RunCommandContract ==
    run.st = "called" =>
        LET allowed == IF run.allowedExitCodes.given THEN run.allowedExitCodes.codes
                       ELSE {0} IN
        /\ run.outcome.threw <=> run.subprocess.code \notin allowed
        /\ ~run.outcome.threw =>
              run.outcome.value = [code |-> run.subprocess.code,
                                   stdout |-> run.subprocess.stdout,
                                   stderr |-> run.subprocess.stderr]

C7_Witness ==
    /\ run.st = "called"
    /\ run.allowedExitCodes = Given({1, 2})
    /\ run.subprocess.code = 1
    /\ run.subprocess.stderr # <<>>
    /\ ~run.outcome.threw
    /\ run.outcome.value.stderr = run.subprocess.stderr

\* C8: when a command exits with an accepted code and prints malformed JSON,
\* its collector fails as for a command failure of that step (no record, one
\* warning, no outdated command after a malformed inventory); the other
\* managers keep their records and warnings and the loop goes on.
C8_MalformedJsonFailsCollector ==
    /\ (exited.out = "malformed" /\ exited.code \in Accepted(exited.manager, exited.step)) =>
          LET m == exited.manager IN
          /\ Failed(m)
          /\ RecordsOf(m, packages) = <<>>
          /\ Len(WarningsOf(m, warnings)) = 1
          /\ WarningsOf(m, warnings)[1].message.kind = "parse"
          /\ exited.step = "inventory" => ~Invoked(m, "outdated")
    /\ \A m \in Managers :
          /\ RecordsOf(m, packages) = returned[m]
          /\ Len(WarningsOf(m, warnings)) = (IF Failed(m) THEN 1 ELSE 0)
          /\ Failed(m) => idx > Index(m)

C8_Witness ==
    /\ summary.settled = "fulfilled"
    /\ WarningsOf("npm", warnings) = <<[manager |-> "npm", message |-> ParseError("npm outdated")]>>
    /\ returned["brew"] # <<>>
    /\ returned["pip"] # <<>>
    /\ RecordsOf("brew", packages) = returned["brew"]
    /\ RecordsOf("pip", packages) = returned["pip"]
    /\ Len(warnings) = 1

\* the names a collector's local lists, in the order it was built
RECURSIVE ListedNames(_, _)
ListedNames(m, local) ==
    IF m = "pip" THEN [i \in 1..Len(local.items) |-> local.items[i].name]
    ELSE IF local = <<>> THEN <<>>
    ELSE IF m = "npm" /\ Head(local).version = Absent THEN ListedNames(m, Tail(local))
    ELSE <<Head(local).key>> \o ListedNames(m, Tail(local))

RecordNames(records) == [i \in 1..Len(records) |-> records[i].name]

\* C9: snapshot.packages is always the brew records, then the npm records,
\* then the pip records, each manager's records in the order its inventory
\* listed them; the summary returns that list.
C9_PackagesInManagerOrder ==
    /\ [](/\ packages = returned["brew"] \o returned["npm"] \o returned["pip"]
          /\ summary.settled = "fulfilled" => summary.value.snapshot.packages = packages)
    /\ [][\A m \in Managers :
            (cpc[m] = "outdated" /\ cpc'[m] = "returned") =>
               RecordNames(returned'[m]) = ListedNames(m, installed[m])]_vars

C9_Witness ==
    /\ summary.settled = "fulfilled"
    /\ Len(returned["brew"]) = 2
    /\ Len(returned["npm"]) = 1
    /\ Len(returned["pip"]) = 2
    /\ Len(summary.value.snapshot.packages) = 5
    /\ summary.value.snapshot.packages[2].manager = "brew"
    /\ summary.value.snapshot.packages[3].manager = "npm"

\* C10 as stated: while an earlier-enumerated collector is still running, a
\* later-enumerated collector that has not started can start.
C10_LaterCollectorCanStart ==
    \A m, e \in Managers :
        (Index(e) < Index(m) /\ cpc[e] \in {"inventory", "outdated"} /\ cpc[m] = "idle")
            => ENABLED CallRunner(m)

\* C10 as amended: the collectors run one after the other in enumeration
\* order: a collector has started only if every earlier-enumerated collector
\* has settled, so at most one collector is running; and within a collector
\* the outdated command is spawned right after its own inventory command,
\* once that has exited.
C10_CollectorsRunInTurn ==
    /\ \A m, e \in Managers :
          (Index(e) < Index(m) /\ cpc[m] # "idle") => cpc[e] \in {"returned", "threw"}
    /\ Cardinality({m \in Managers : cpc[m] \in {"inventory", "outdated"}}) <= 1
    /\ \A i \in 1..Len(spawned) :
          spawned[i].step = "outdated" =>
              i > 1 /\ spawned[i-1] = Command(spawned[i].manager, "inventory")
    /\ \A m \in Managers :
          cpc[m] = "outdated" =>
              exited.manager = m /\ exited.step = "inventory" /\ exited.code = 0

C10_Witness ==
    /\ cpc["brew"] = "returned"
    /\ cpc["npm"] = "outdated"
    /\ cpc["pip"] = "idle"
    /\ spawned = <<Command("brew", "inventory"), Command("brew", "outdated"),
                   Command("npm", "inventory"), Command("npm", "outdated")>>

\* C14 as stated: a record of snapshot.packages has status "unknown" exactly
\* when the outdated check gave no data for its package (its latest_version
\* is null); a record of a manager whose outdated check failed is "unknown".
C14_UnknownIffNoOutdatedData ==
    \A i \in 1..Len(packages) :
        packages[i].status = "unknown" <=> packages[i].latest_version = Null

\* C14 as amended: no record ever has status "unknown": every record is
\* "outdated" or "current", a record whose package the outdated output gave
\* no data for (latest_version null) is "current", and a manager whose
\* outdated check failed has no record at all.
C14_NoRecordIsUnknown ==
    /\ \A i \in 1..Len(packages) :
          /\ packages[i].status \in {"current", "outdated"}
          /\ packages[i].latest_version = Null => packages[i].status = "current"
    /\ \A m \in Managers :
          (exited.manager = m /\ exited.step = "outdated" /\ Failed(m)) =>
              RecordsOf(m, packages) = <<>>

C14_Witness ==
    /\ exited.manager = "brew" /\ exited.step = "outdated" /\ exited.code = 0
    /\ exited.out = "object"
    /\ Len(returned["brew"]) = 2
    /\ returned["brew"][1].latest_version = Null
    /\ returned["brew"][1].status = "current"
    /\ returned["brew"][2].status = "outdated"

\* C15: when pip list printed an array of n installed packages and pip list
\* --outdated exits with 0 and empty or whitespace-only stdout, the pip
\* collector returns n records without a warning, each with latest_version
\* null and status "current".
C15_PipEmptyOutdatedAllCurrent ==
    (exited.manager = "pip" /\ exited.step = "outdated" /\ exited.code = 0
     /\ exited.out = "blank" /\ exited.listed >= 0) =>
        /\ cpc["pip"] = "returned"
        /\ WarningsOf("pip", warnings) = <<>>
        /\ Len(returned["pip"]) = exited.listed
        /\ RecordsOf("pip", packages) = returned["pip"]
        /\ \A i \in 1..Len(returned["pip"]) :
              /\ returned["pip"][i].manager = "pip"
              /\ returned["pip"][i].latest_version = Null
              /\ returned["pip"][i].status = "current"

C15_Witness ==
    /\ exited = [manager |-> "pip", step |-> "outdated", code |-> 0, out |-> "blank",
                 shape |-> "none", formulae |-> <<>>, listed |-> 2]
    /\ Len(returned["pip"]) = 2
    /\ returned["pip"][1].name # returned["pip"][2].name
    /\ \A i \in 1..2 : returned["pip"][i].status = "current"

\* C16: in the snapshot collectInventory() returns every record has a
\* non-empty name and no two records have the same manager and name,
\* whatever the inventory commands printed.
C16_NamesUniquePerManager ==
    summary.settled = "fulfilled" =>
        LET pkgs == summary.value.snapshot.packages IN
        /\ \A i \in 1..Len(pkgs) : pkgs[i].name # ""
        /\ \A i, j \in 1..Len(pkgs) :
              (i # j /\ pkgs[i].manager = pkgs[j].manager) => pkgs[i].name # pkgs[j].name

\* the names of all the entries a collector's inventory step read, whether
\* or not an entry carries a version
EntryNames(m, local) ==
    IF m = "pip" THEN {local.items[i].name : i \in 1..Len(local.items)}
    ELSE {local[i].key : i \in 1..Len(local)}

\* C18: when a collector returns, it returns exactly one record for every
\* entry its inventory step read: as many records as entries for brew and
\* npm (whose entries have distinct names), and for every collector the
\* names of the records are the names of the entries, so that no entry is
\* dropped and a name the outdated output alone mentions has no record.
C18_OneRecordPerInventoryEntry ==
    [][\A m \in Managers :
          (cpc[m] = "outdated" /\ cpc'[m] = "returned") =>
              /\ Len(returned'[m]) = Size(m, installed[m])
              /\ {returned'[m][i].name : i \in 1..Len(returned'[m])}
                     = EntryNames(m, installed[m])]_vars

\* C19: when a command exits with an accepted code and prints well-formed
\* JSON that does not have the shape its collector expects (a brew outdated
\* document without a formulae array, an npm ls document without a
\* dependencies map, a JSON value of another type), the collector fails at
\* that step with one warning for a parse failure.
C19_WrongShapeIsParseFailure ==
    (exited.shape = "unexpected" /\ exited.code \in Accepted(exited.manager, exited.step)) =>
        LET m == exited.manager IN
        /\ Failed(m)
        /\ RecordsOf(m, packages) = <<>>
        /\ Len(WarningsOf(m, warnings)) = 1
        /\ WarningsOf(m, warnings)[1].message.kind = "parse"

\* C20: when brew outdated exits with 0 and prints a document with a formulae
\* array, the brew collector returns one record per installed package, and a
\* record's latest_version is the latest_version of a formula of the same
\* name, or that formula's current_version when it has no latest_version, or
\* null when no formula of that name gives a version; the record is
\* "outdated" when that version differs from the installed one.
C20_BrewLatestFromFormula ==
    (exited.manager = "brew" /\ exited.step = "outdated" /\ exited.code = 0
     /\ exited.shape = "expected") =>
        LET records == returned["brew"]
            Named(name) == {f \in {exited.formulae[k] : k \in 1..Len(exited.formulae)} :
                               f.name = name
                               /\ (f.latest_version # Absent \/ f.current_version # Absent)}
        IN
        /\ cpc["brew"] = "returned"
        /\ Len(records) = exited.listed
        /\ \A i \in 1..Len(records) :
              /\ IF Named(records[i].name) = {} THEN records[i].latest_version = Null
                 ELSE \E f \in Named(records[i].name) :
                        records[i].latest_version =
                            (IF f.latest_version # Absent THEN f.latest_version
                             ELSE f.current_version)
              /\ records[i].status =
                    (IF records[i].latest_version # Null
                        /\ records[i].latest_version # records[i].current_version
                     THEN "outdated" ELSE "current")

C20_Witness ==
    /\ exited.manager = "brew" /\ exited.step = "outdated" /\ exited.code = 0
    /\ exited.formulae = <<[name |-> "a", latest_version |-> Absent, current_version |-> "2"]>>
    /\ returned["brew"]
         = <<Record("brew", "a", "1", "2", "outdated"), Record("brew", "b", "2", Null, "current")>>

\* C13: whenever the component's state can be read, its summary, snapshot
\* and warnings are either all the initial values or all taken from the one
\* summary a completed collectInventory() run returned; while any collector
\* has not finished they are the initial values, whatever the run has pushed
\* to its packages and warnings so far.
C13_StateFromOneCompletedRun ==
    /\ state.summary = NullRef => state.snapshot = NullRef /\ state.warnings = <<>>
    /\ state.summary # NullRef =>
          /\ AllSettled
          /\ summary.settled = "fulfilled"
          /\ state.summary = Ref(summary.value)
          /\ state.snapshot = Ref(summary.value.snapshot)
          /\ state.warnings = summary.value.warnings
    /\ ~AllSettled => state = setup_state

C13_Witness ==
    /\ chain = "finally"
    /\ state.loading
    /\ state.summary # NullRef
    /\ Len(Deref(state.snapshot).packages) = 2
    /\ Len(state.warnings) = 1
    /\ state.warnings = Deref(state.summary).warnings

\* C17: once a consumer has loaded a summary that holds warnings, it shows
\* the dashboard with one line for each warning of the summary, whatever the
\* number of packages: in particular three warning lines and empty manager
\* boxes when all three collectors failed. This is stated of both consumers,
\* the terminal component and the desktop page.
C17_WarningsAlwaysShown ==
    /\ (~state.loading /\ state.summary # NullRef
        /\ Deref(state.summary).warnings # <<>>) =>
          /\ template(state).screen = "dashboard"
          /\ template(state).warnings = Deref(state.summary).warnings
    /\ (~page.isLoading /\ page.summary # NullRef
        /\ Deref(page.summary).warnings # NullRef
        /\ Deref(Deref(page.summary).warnings) # <<>>) =>
          /\ markup(page).screen = "dashboard"
          /\ markup(page).warnings = Deref(Deref(page.summary).warnings)

\* C11: at most one aggregation run is in flight; every pending refreshNow()
\* call waits for the run in flight; a refreshNow() issued while a run is
\* Running starts no run; and when the run completes, every caller that
\* waited for it receives the one summary that becomes current. So two
\* overlapping refreshNow() calls cause one collect and return the same
\* summary.
C11_AtMostOneAggregation ==
    /\ [](/\ Cardinality(sched.inflight) <= 1
          /\ \A c \in Callers : sched.joined[c] # 0 => sched.joined[c] \in sched.inflight)
    /\ [][/\ (sched.inflight # {} /\ sched'.last \in {"refreshNow", "fired"}) =>
                /\ sched'.started = sched.started
                /\ sched'.inflight = sched.inflight
          /\ sched'.inflight # sched.inflight /\ sched'.last = "completed" =>
                \A c \in Callers :
                    sched.joined[c] # 0 =>
                        /\ sched'.received[c] = sched'.current
                        /\ sched'.joined[c] = 0]_vars

C11_Witness ==
    /\ sched.last = "completed"
    /\ sched.started = 1
    /\ sched.current = 1
    /\ sched.received["ui"] = 1
    /\ sched.received["tray"] = 1
    /\ sched.received["timer"] = 1

\* C12: at most one timer is armed; schedule() leaves exactly one timer,
\* with its 24 hours starting over; stop() leaves no timer and leaves the
\* runs in flight and the calls waiting for them as they were, and a run in
\* flight can complete whether or not a timer is armed.
C12_AtMostOneTimer ==
    /\ [](/\ Len(sched.timers) <= 1
          /\ sched.last = "schedule" => sched.timers = <<0>>
          /\ sched.last = "stop" => sched.timers = <<>>
          /\ sched.inflight # {} => ENABLED AggregationCompletes)
    /\ [][sched'.last = "stop" =>
             /\ sched'.inflight = sched.inflight
             /\ sched'.joined = sched.joined
             /\ sched'.started = sched.started
             /\ sched'.current = sched.current]_vars

C12_Witness ==
    /\ sched.last = "stop"
    /\ sched.timers = <<>>
    /\ sched.inflight = {2}
    /\ sched.joined["timer"] = 2
    /\ sched.joined["ui"] = 2

\* C21: in the terminal client the loading flag is true until the promise
\* chain of setup() has run, becomes false once collectInventory() has
\* settled, and never becomes true again; when loading is false exactly one
\* of "summary is set" and "error is set" holds; and the error is never set,
\* whichever manager commands failed.
C21_LoadingEndsOnce ==
    /\ [](/\ chain # "done" => state.loading
          /\ ~state.loading => (state.summary # NullRef) # (state.error # Null)
          /\ state.error = Null)
    /\ [][~state.loading => ~state'.loading]_vars
    /\ (summary.settled # "pending") ~> (~state.loading)

C21_Witness ==
    /\ ~state.loading
    /\ state.summary # NullRef
    /\ state.error = Null
    /\ FailedManagers = {"brew", "npm"}
    /\ Len(state.warnings) = 2
    /\ Len(Deref(state.snapshot).packages) = 1

====
